---------------------------- MODULE Spec2Model ----------------------------
(***************************************************************************)
(* The item tree manager of itmn: the forest of items, the two identifier  *)
(* sets of ItemManager, and the commands of main.rs that act on them.      *)
(*                                                                         *)
(* An Item is a record [internal_id, ref_id, state, name, children] whose  *)
(* children field is a sequence of Items (Vec<Item>).  Option<u32> is a    *)
(* natural number or None.  A position in the forest (what a &mut Item     *)
(* points to) is a path: the sequence of 1-based child indices that leads  *)
(* from the root list to the item.                                         *)
(***************************************************************************)
EXTENDS Integers, Sequences, FiniteSets, TLC

VARIABLES
    pc,            \* "load": data read from the file, manager not yet built;
                   \* "ready": the manager awaits a command;
                   \* "returned": a command has returned its result and
                   \*     start_program_with_file has saved what was to be saved;
                   \* "unsaved": the same, but the write of the file failed;
                   \* "failed": ItemManager::new returned Err;
                   \* "aborted": a command panicked (unwrap on None)
    data,          \* ItemManager::data, the root list
    ref_ids,       \* ItemManager::ref_ids
    internal_ids,  \* ItemManager::internal_ids
    cmd,           \* the last command run and its arguments
    result,        \* what the last command returned
    prev,          \* the manager as it was when the last command started
    file,          \* the forest the data file holds
    exit,          \* the exit status of the process, whether the file was
                   \* written, and the file as it was when the command started
    arg,           \* the argument of a function called on its own: the range
                   \* string of parse_range_str as its tokens, the set of the
                   \* allocator, the items and ReportInfo of a report
    parsed,        \* what parse_range_str returned for it
    lock_dir,      \* whether the directory itmn.lock exists in the temp dir
    procs          \* the itmn processes started side by side: where each is
                   \* in main, its exit status, what FolderLock::lock gave it
                   \* and whether it has read or written the data file

vars == <<pc, data, ref_ids, internal_ids, cmd, result, prev, file, exit, arg, parsed,
          lock_dir, procs>>

----------------------------------------------------------------------------
(* Bounds *)

\* Items ever created in one run (those of the input file and those added).
MaxItems == 3
\* Items in the forest read from the data file.
MaxInput == 2
\* Length of a parsed selection.
MaxRangeLen == 2
\* Largest id typed in a selection or as a new owner.
MaxRefId == 1
\* Largest ref-id written in the input file.
MaxInputId == 1
\* Items in a data file whose ids were written by hand.
MaxLoad == 3

----------------------------------------------------------------------------
(* Items *)

None == -1

Todo == "Todo"
Done == "Done"
Note == "Note"
ItemState == {Todo, Done, Note}

\* A name is a sequence of characters.
Names == {<<"a">>}

\* Item::new, with the name already validated and no context or description.
NewItem(ref_id, internal_id, name, state, children) ==
    [internal_id |-> internal_id, ref_id |-> ref_id, state |-> state,
     name |-> name, children |-> children]

\* Queries: RefId(u32) and InternalId(u32).
RefId(id) == [kind |-> "ref", id |-> id]
InternalId(id) == [kind |-> "internal", id |-> id]

\* The comparison made by the four search functions of Searchable<RefId> and
\* Searchable<InternalId>.
Matches(item, query) ==
    IF query.kind = "ref"
    THEN item.ref_id # None /\ item.ref_id = query.id
    ELSE item.internal_id = query.id

\* fn search of find / find_mut: pre-order, the item, then its children, then
\* the next sibling.  The path of the first match from index i on, <<>> for
\* Option::None.
RECURSIVE Search(_, _, _)
Search(items, query, i) ==
    IF i > Len(items) THEN <<>>
    ELSE IF Matches(items[i], query) THEN <<i>>
    ELSE LET find_result == Search(items[i].children, query, 1)
         IN  IF find_result # <<>> THEN <<i>> \o find_result
             ELSE Search(items, query, i + 1)

Find(items, query) == Search(items, query, 1)

\* The item a path points to.
RECURSIVE ItemAt(_, _)
ItemAt(items, path) ==
    IF Len(path) = 1 THEN items[path[1]]
    ELSE ItemAt(items[path[1]].children, Tail(path))

\* The forest after a write through a &mut Item.
RECURSIVE ReplaceAt(_, _, _)
ReplaceAt(items, path, new) ==
    IF Len(path) = 1 THEN [items EXCEPT ![path[1]] = new]
    ELSE [items EXCEPT ![path[1]].children = ReplaceAt(@, Tail(path), new)]

\* Vec::remove(i)
VecRemove(items, i) == SubSeq(items, 1, i - 1) \o SubSeq(items, i + 1, Len(items))

RECURSIVE RemoveAt(_, _)
RemoveAt(items, path) ==
    IF Len(path) = 1 THEN VecRemove(items, path[1])
    ELSE [items EXCEPT ![path[1]].children = RemoveAt(@, Tail(path))]

IsPrefix(p, q) == Len(p) <= Len(q) /\ SubSeq(q, 1, Len(p)) = p

\* Every item of the forest, in pre-order.
RECURSIVE Flatten(_)
Flatten(items) ==
    IF items = <<>> THEN <<>>
    ELSE <<Head(items)>> \o Flatten(Head(items).children) \o Flatten(Tail(items))

Range(seq) == {seq[i] : i \in 1..Len(seq)}

----------------------------------------------------------------------------
(* Identifier allocator *)

SetMax(set) == CHOOSE m \in set : \A x \in set : x <= m

RECURSIVE Probe(_, _)
Probe(set, free_value) ==
    IF free_value \notin set THEN free_value ELSE Probe(set, free_value + 1)

\* find_lowest_free_value that does not reuse a value below the largest in use.
find_lowest_free_value_above(set) == IF set = {} THEN 0 ELSE SetMax(set) + 1

find_lowest_free_value(set) == Probe(set, 0)

\* find_highest_free_value without the step past a value that is in use.
find_highest_free_value_used(set) == SetMax(set \cup {0})

find_highest_free_value(set) ==
    LET free_value == SetMax(set \cup {0})
    IN  IF free_value \in set THEN free_value + 1 ELSE free_value

----------------------------------------------------------------------------
(* ItemManager::new *)

NoError == <<"none">>

\* travel that looks at the internal id of an item before its ref-id.
RECURSIVE Travel_internal_first(_, _, _)
Travel_internal_first(items, i, acc) ==
    IF acc.err # NoError \/ i > Len(items) THEN acc
    ELSE LET item == items[i] IN
         IF item.internal_id \in acc.in_set
         THEN [acc EXCEPT !.err = <<"RepeatedInternalID", item.internal_id>>]
         ELSE IF item.ref_id # None /\ item.ref_id \in acc.ref_set
         THEN [acc EXCEPT !.err = <<"RepeatedRefID", item.ref_id>>]
         ELSE LET a2 == [acc EXCEPT !.in_set = @ \cup {item.internal_id},
                                    !.ref_set = IF item.ref_id # None
                                                THEN @ \cup {item.ref_id} ELSE @]
              IN  Travel_internal_first(items, i + 1,
                                        Travel_internal_first(item.children, 1, a2))

\* fn travel: fills both sets, stops at the first repeated id.
RECURSIVE Travel(_, _, _)
Travel(items, i, acc) ==
    IF acc.err # NoError \/ i > Len(items) THEN acc
    ELSE LET item == items[i] IN
         IF item.ref_id # None /\ item.ref_id \in acc.ref_set
         THEN [acc EXCEPT !.err = <<"RepeatedRefID", item.ref_id>>]
         ELSE LET a1 == IF item.ref_id # None
                        THEN [acc EXCEPT !.ref_set = @ \cup {item.ref_id}]
                        ELSE acc
              IN  IF item.internal_id \in a1.in_set
                  THEN [a1 EXCEPT !.err = <<"RepeatedInternalID", item.internal_id>>]
                  ELSE LET a2 == [a1 EXCEPT !.in_set = @ \cup {item.internal_id}]
                       IN  Travel(items, i + 1, Travel(item.children, 1, a2))

\* The loop over data.iter_mut(): the items of the root list only, each given
\* the lowest value free in ref_set, which the loop does not update.
AssignRefIds(items, ref_set) ==
    [i \in 1..Len(items) |->
        IF items[i].state \in {Todo, Note} /\ items[i].ref_id = None
        THEN [items[i] EXCEPT !.ref_id = find_lowest_free_value(ref_set)]
        ELSE items[i]]

ManagerNew(input) ==
    LET t == Travel(input, 1, [ref_set |-> {}, in_set |-> {}, err |-> NoError])
    IN  IF t.err # NoError
        THEN [ok |-> FALSE, err |-> t.err, data |-> input,
              ref_ids |-> {}, internal_ids |-> {}]
        ELSE [ok |-> TRUE, err |-> NoError,
              data |-> AssignRefIds(input, t.ref_set),
              ref_ids |-> t.ref_set, internal_ids |-> t.in_set]

----------------------------------------------------------------------------
(* The input file *)

InputIds == 0..MaxInputId

Leaves ==
    {NewItem(r, i, <<"a">>, s, <<>>) :
        r \in {None} \cup InputIds, i \in 0..(MaxInput - 1), s \in ItemState}

\* Forests of n + 1 items made from the forests of n items: one more root at
\* the end, or one more last child of any item.
Paths(items) ==
    LET RECURSIVE P(_, _)
        P(its, i) == IF i > Len(its) THEN {}
                     ELSE {<<i>>} \cup {<<i>> \o p : p \in P(its[i].children, 1)}
                          \cup P(its, i + 1)
    IN  P(items, 1)

Grow(forests) ==
    {Append(f, l) : f \in forests, l \in Leaves}
    \cup UNION {{ReplaceAt(f, p, [ItemAt(f, p) EXCEPT !.children = Append(@, l)]) :
                    p \in Paths(f), l \in Leaves} : f \in forests}

RECURSIVE ForestsOfSize(_)
ForestsOfSize(n) == IF n = 0 THEN {<<>>} ELSE Grow(ForestsOfSize(n - 1))

\* The forests the file can hold: internal ids are written in the order the
\* items were created, ref-ids and states are any.
InputForests ==
    {f \in UNION {ForestsOfSize(n) : n \in 0..MaxInput} :
        \A k \in 1..Len(Flatten(f)) : Flatten(f)[k].internal_id = k - 1}

\* The forests a file edited by hand can hold: any ids, repeated or not.
LoadLeaves ==
    {NewItem(r, i, <<"a">>, s, <<>>) :
        r \in {None} \cup InputIds, i \in 0..(MaxLoad - 1), s \in {Todo, Done}}

GrowLoad(forests) ==
    {Append(f, l) : f \in forests, l \in LoadLeaves}
    \cup UNION {{ReplaceAt(f, p, [ItemAt(f, p) EXCEPT !.children = Append(@, l)]) :
                    p \in Paths(f), l \in LoadLeaves} : f \in forests}

RECURSIVE LoadForestsOfSize(_)
LoadForestsOfSize(n) == IF n = 0 THEN {<<>>} ELSE GrowLoad(LoadForestsOfSize(n - 1))

LoadForests == UNION {LoadForestsOfSize(n) : n \in 0..MaxLoad}

----------------------------------------------------------------------------
(* Item *)

\* fn validate_char
validate_char(c) == c \notin {"\n", "\t", "\r"}

\* Item::validate_name
validate_name(name) == SelectSeq(name, validate_char)

\* Item::set_name
set_name(item, new_name) == [item EXCEPT !.name = validate_name(new_name)]

\* Item::has_child: whether other lies in the subtree below item.
has_child(item, other) ==
    \E k \in 1..Len(Flatten(item.children)) :
        Flatten(item.children)[k].internal_id = other.internal_id

----------------------------------------------------------------------------
(* ItemManager *)

\* ItemManager::add_item_on_root, on a manager m; Item::new validates the name.
add_item_on_root(m, name, state, children) ==
    LET free_ref_id == find_lowest_free_value(m.ref_ids)
        free_internal_id == find_highest_free_value(m.internal_ids)
    IN  [data |-> Append(m.data, NewItem(free_ref_id, free_internal_id,
                                         validate_name(name), state, children)),
         ref_ids |-> m.ref_ids \cup {free_ref_id},
         internal_ids |-> m.internal_ids \cup {free_internal_id}]

\* add_child that looks the parent up before it takes the ids.
add_child_lookup_first(m, query, name, state, children) ==
    LET free_ref_id == find_lowest_free_value(m.ref_ids)
        free_internal_id == find_highest_free_value(m.internal_ids)
        taken == [m EXCEPT !.ref_ids = @ \cup {free_ref_id},
                           !.internal_ids = @ \cup {free_internal_id}]
        path == Find(m.data, query)
    IN  IF path # <<>>
        THEN [ok |-> TRUE,
              m |-> [taken EXCEPT !.data =
                        ReplaceAt(m.data, path,
                            [ItemAt(m.data, path) EXCEPT !.children =
                                Append(@, NewItem(free_ref_id, free_internal_id,
                                                  validate_name(name), state, children))])]]
        ELSE [ok |-> FALSE, m |-> m]

\* ItemManager::add_child: both ids are taken before the parent is looked up.
add_child(m, query, name, state, children) ==
    LET free_ref_id == find_lowest_free_value(m.ref_ids)
        free_internal_id == find_highest_free_value(m.internal_ids)
        taken == [m EXCEPT !.ref_ids = @ \cup {free_ref_id},
                           !.internal_ids = @ \cup {free_internal_id}]
        path == Find(m.data, query)
    IN  IF path # <<>>
        THEN [ok |-> TRUE,
              m |-> [taken EXCEPT !.data =
                        ReplaceAt(m.data, path,
                            [ItemAt(m.data, path) EXCEPT !.children =
                                Append(@, NewItem(free_ref_id, free_internal_id,
                                                  validate_name(name), state, children))])]]
        ELSE [ok |-> FALSE, m |-> taken]

\* ItemManager::try_remove: the first match in pre-order leaves the forest with
\* its subtree.
try_remove(items, ref_id) ==
    LET path == Find(items, RefId(ref_id))
    IN  IF path = <<>>
        THEN [found |-> FALSE, data |-> items]
        ELSE [found |-> TRUE, item |-> ItemAt(items, path), data |-> RemoveAt(items, path)]

\* ItemManager::first_invalid_ref_id
RECURSIVE FirstInvalidFrom(_, _, _)
FirstInvalidFrom(items, ids, i) ==
    IF i > Len(ids) THEN None
    ELSE IF Find(items, RefId(ids[i])) = <<>> THEN ids[i]
    ELSE FirstInvalidFrom(items, ids, i + 1)

\* first_invalid_ref_id that keeps looking after a miss and so returns the
\* last id that is not found.
RECURSIVE LastInvalidFrom(_, _, _)
LastInvalidFrom(items, ids, i) ==
    IF i = 0 THEN None
    ELSE IF Find(items, RefId(ids[i])) = <<>> THEN ids[i]
    ELSE LastInvalidFrom(items, ids, i - 1)

first_invalid_ref_id_last(items, ids) == LastInvalidFrom(items, ids, Len(ids))

first_invalid_ref_id(items, ids) == FirstInvalidFrom(items, ids, 1)

\* swap without the comparison of the two pointers.
swap_unchecked(items, query_1, query_2) ==
    LET first == Find(items, query_1)
        second == Find(items, query_2)
    IN  IF first = <<>>
        THEN [ok |-> FALSE, err |-> <<"first query could not be found">>, data |-> items]
        ELSE IF second = <<>>
        THEN [ok |-> FALSE, err |-> <<"second query could not be found">>, data |-> items]
        ELSE [ok |-> TRUE, err |-> NoError,
              data |-> ReplaceAt(ReplaceAt(items, first, ItemAt(items, second)),
                                 second, ItemAt(items, first))]

\* ItemManager::swap.  std::ptr::swap exchanges the bytes of the two Item
\* structs: name, state, ids and the header of the children Vec.  When neither
\* item is inside the other the two subtrees change places.  When one is inside
\* the other, the outer slot receives the inner item with the inner item's
\* children, and the inner slot, which lives in a buffer now referenced only
\* from itself, is no longer reachable from the root list.
swap(items, query_1, query_2) ==
    LET first == Find(items, query_1)
        second == Find(items, query_2)
    IN  IF first = <<>>
        THEN [ok |-> FALSE, err |-> <<"first query could not be found">>, data |-> items]
        ELSE IF second = <<>>
        THEN [ok |-> FALSE, err |-> <<"second query could not be found">>, data |-> items]
        ELSE IF first = second
        THEN [ok |-> FALSE, err |-> <<"first and second queries are the same item">>,
              data |-> items]
        ELSE [ok |-> TRUE, err |-> NoError,
              data |-> IF IsPrefix(first, second)
                       THEN ReplaceAt(items, first, ItemAt(items, second))
                       ELSE IF IsPrefix(second, first)
                       THEN ReplaceAt(items, second, ItemAt(items, first))
                       ELSE ReplaceAt(ReplaceAt(items, first, ItemAt(items, second)),
                                      second, ItemAt(items, first))]

\* ItemManager::change_item_state: the state is mapped, and an item whose new
\* state is Done gives up its ref-id.
change_item_state(items, query, mapper) ==
    LET path == Find(items, query)
    IN  IF path = <<>> THEN [ok |-> FALSE, data |-> items]
        ELSE LET item == ItemAt(items, path)
                 new_state == mapper[item.state]
             IN  [ok |-> TRUE,
                  data |-> ReplaceAt(items, path,
                              [item EXCEPT !.state = new_state,
                                           !.ref_id = IF new_state = Done THEN None ELSE @])]

----------------------------------------------------------------------------
(* Range selector *)

\* A u32 is a pair <<high, low>> of 16-bit halves: high * 65536 + low.
Half == 65536
U32Max == <<Half - 1, Half - 1>>
U32(n) == <<n \div Half, n % Half>>
Less(a, b) == a[1] < b[1] \/ (a[1] = b[1] /\ a[2] < b[2])

\* A string is a sequence of characters.  ArabicThree stands for U+0663, a
\* decimal digit of Unicode that is not an ASCII digit.
Digits == <<"0", "1", "2", "3", "4", "5", "6", "7", "8", "9">>
ArabicThree == "U+0663"
IsAsciiDigit(c) == \E d \in 1..10 : Digits[d] = c
DigitValue(c) == (CHOOSE d \in 1..10 : Digits[d] = c) - 1

\* \d of the regex crate: any decimal digit of Unicode.
IsDigit(c) == IsAsciiDigit(c) \/ c = ArabicThree
AllDigits(s) == s # <<>> /\ \A k \in 1..Len(s) : IsDigit(s[k])

\* str::parse::<u32>: fails on a character that is not an ASCII digit and on a
\* value above u32::MAX.
RECURSIVE ParseFrom(_, _, _)
ParseFrom(s, k, acc) ==
    IF k > Len(s) THEN [ok |-> TRUE, value |-> acc]
    ELSE IF ~IsAsciiDigit(s[k]) THEN [ok |-> FALSE, value |-> acc]
    ELSE LET low == acc[2] * 10 + DigitValue(s[k])
             high == acc[1] * 10 + low \div Half
         IN  IF high >= Half THEN [ok |-> FALSE, value |-> acc]
             ELSE ParseFrom(s, k + 1, <<high, low % Half>>)

ParseU32(s) == IF s = <<>> THEN [ok |-> FALSE, value |-> <<0, 0>>]
               ELSE ParseFrom(s, 1, <<0, 0>>)

\* number_regex ^\d+$
IsNumberToken(token) == AllDigits(token)

\* range_regex ^(\d+)\.\.(\d+)$: the place of the first dot, 0 when the token
\* is not of that form.
RangeDots(token) ==
    LET dots == {k \in 1..Len(token) : token[k] = "."}
    IN  IF dots = {} THEN 0
        ELSE LET p == CHOOSE k \in dots : \A j \in dots : k <= j
             IN  IF /\ p + 1 <= Len(token)
                    /\ token[p + 1] = "."
                    /\ AllDigits(SubSeq(token, 1, p - 1))
                    /\ AllDigits(SubSeq(token, p + 2, Len(token)))
                 THEN p ELSE 0

\* str::split(','): the pieces between the commas, empty ones too.
RECURSIVE SplitFrom(_, _, _)
SplitFrom(s, k, piece) ==
    IF k > Len(s) THEN <<piece>>
    ELSE IF s[k] = "," THEN <<piece>> \o SplitFrom(s, k + 1, <<>>)
    ELSE SplitFrom(s, k + 1, Append(piece, s[k]))

Split(s) == SplitFrom(s, 1, <<>>)

\* What parse_range_str gives: Ok(vec), Err(message), a panic, or no return.
ParseOk(vec) ==
    [kind |-> "ok", value |-> vec,
     err |-> [tag |-> "none", token |-> <<>>, first |-> <<0, 0>>, second |-> <<0, 0>>]]
ParseErr(tag, token, num1, num2) ==
    [kind |-> "err", value |-> <<>>,
     err |-> [tag |-> tag, token |-> token, first |-> num1, second |-> num2]]
ParseAbort(kind, token) ==
    [kind |-> kind, value |-> <<>>,
     err |-> [tag |-> "none", token |-> token, first |-> <<0, 0>>, second |-> <<0, 0>>]]

\* The loop of a range token: push i, add one, stop when i > num2.  At
\* i = u32::MAX the addition overflows: a build with overflow checks panics,
\* one without wraps to 0, which is never above num2, and the loop goes on.
RECURSIVE RangeLoop(_, _, _, _)
RangeLoop(vec, i, num2, checks) ==
    LET pushed == Append(vec, i)
    IN  IF i = U32Max
        THEN [kind |-> IF checks THEN "panic" ELSE "hang", value |-> pushed]
        ELSE LET next == IF i[2] = Half - 1 THEN <<i[1] + 1, 0>> ELSE <<i[1], i[2] + 1>>
             IN  IF Less(num2, next) THEN [kind |-> "ok", value |-> pushed]
                 ELSE RangeLoop(pushed, next, num2, checks)

\* The body of the for loop of parse_range_str, token by token.
RECURSIVE ParseTokens(_, _, _, _)
ParseTokens(tokens, k, vec, checks) ==
    IF k > Len(tokens) THEN ParseOk(vec)
    ELSE LET number == tokens[k]
             p == RangeDots(number)
         IN  IF IsNumberToken(number)
             THEN LET n == ParseU32(number)
                  IN  IF n.ok THEN ParseTokens(tokens, k + 1, Append(vec, n.value), checks)
                      ELSE ParseAbort("panic", number)
             ELSE IF p # 0
             THEN LET num1 == ParseU32(SubSeq(number, 1, p - 1))
                      num2 == ParseU32(SubSeq(number, p + 2, Len(number)))
                  IN  IF ~num1.ok \/ ~num2.ok THEN ParseAbort("panic", number)
                      ELSE IF Less(num2.value, num1.value)
                      THEN ParseErr("Second number is smaller than first number",
                                    number, num1.value, num2.value)
                      ELSE LET r == RangeLoop(vec, num1.value, num2.value, checks)
                           IN  IF r.kind = "ok"
                               THEN ParseTokens(tokens, k + 1, r.value, checks)
                               ELSE ParseAbort(r.kind, number)
             ELSE ParseErr("Could not parse", number, <<0, 0>>, <<0, 0>>)

\* parse_range_str; checks says whether the build has overflow checks.
parse_range_str(string, checks) ==
    LET NotSpace(c) == c # " "
    IN  ParseTokens(Split(SelectSeq(string, NotSpace)), 1, <<>>, checks)

\* The decimal digits of a u32, as u32::to_string writes them.
RECURSIVE u32_to_string(_)
u32_to_string(n) ==
    LET rest == (n[1] % 10) * Half + n[2]
        quotient == <<n[1] \div 10, rest \div 10>>
    IN  IF quotient = <<0, 0>> THEN <<Digits[(rest % 10) + 1]>>
        ELSE Append(u32_to_string(quotient), Digits[(rest % 10) + 1])

\* The tokens a range string is written from: a number, with leading zeros or
\* not, a range first..second, or any other text.
Num(n, zeros) == [kind |-> "num", first |-> n, second |-> n, zeros |-> zeros, text |-> <<>>]
Rng(a, b) == [kind |-> "range", first |-> a, second |-> b, zeros |-> 0, text |-> <<>>]
Text(t) == [kind |-> "text", first |-> <<0, 0>>, second |-> <<0, 0>>, zeros |-> 0, text |-> t]

Zeros(k) == [i \in 1..k |-> "0"]

TokenText(token) ==
    IF token.kind = "num" THEN Zeros(token.zeros) \o u32_to_string(token.first)
    ELSE IF token.kind = "range"
    THEN u32_to_string(token.first) \o <<".", ".">> \o u32_to_string(token.second)
    ELSE token.text

\* The range string of a list of tokens, with or without spaces around them.
RECURSIVE Join(_, _, _)
Join(tokens, k, spaced) ==
    LET pad == IF spaced THEN <<" ">> ELSE <<>>
        here == pad \o TokenText(tokens[k]) \o pad
    IN  IF k = Len(tokens) THEN here
        ELSE here \o <<",">> \o Join(tokens, k + 1, spaced)

\* Tokens in one range string.
MaxTokens == 3

TooBig == <<"4", "2", "9", "4", "9", "6", "7", "2", "9", "6">>

Tokens ==
    {Num(U32(n), 0) : n \in {0, 1, 4, 5, 10}}
    \cup {Num(U32(7), 2), Num(U32Max, 0), Num(<<1, 0>>, 0)}
    \cup {Rng(U32(1), U32(10)), Rng(U32(0), U32(1)), Rng(U32(2), U32(2)),
          Rng(U32(5), U32(2)), Rng(U32(1), U32(0)),
          Rng(<<Half - 1, Half - 2>>, U32Max), Rng(U32Max, U32Max),
          Rng(<<0, Half - 1>>, <<1, 0>>)}
    \cup {Text(<<>>), Text(<<"x">>), Text(<<"1", ".", ".">>), Text(<<"1", ".", "2">>),
          Text(<<"-", "1">>), Text(<<"1", "\t">>), Text(TooBig),
          Text(<<"1", ".", ".">> \o TooBig), Text(<<ArabicThree>>)}

TokenLists == UNION {[1..n -> Tokens] : n \in 1..MaxTokens}

RangeInputs == [tokens : TokenLists, spaced : {TRUE, FALSE}, checks : {TRUE, FALSE}]

RangeString(in) == Join(in.tokens, 1, in.spaced)

----------------------------------------------------------------------------
(* Identifier allocator over the whole of u32 *)

\* A HashSet<u32> that may hold values up to u32::MAX is a set of runs
\* [lo, hi] of consecutive values.
Piece(lo, hi) == [lo |-> lo, hi |-> hi]

\* The u32 after v and the one before it.
Succ(v) == IF v[2] = Half - 1 THEN <<v[1] + 1, 0>> ELSE <<v[1], v[2] + 1>>
Pred(v) == IF v[2] = 0 THEN <<v[1] - 1, Half - 1>> ELSE <<v[1], v[2] - 1>>

\* HashSet::contains
Contains(set, v) == \E p \in set : ~Less(v, p.lo) /\ ~Less(p.hi, v)

\* What the allocator gives: a value, a panic, or no return.
Free(v) == [kind |-> "ok", value |-> v]
Overflow(checks, wrapped) ==
    IF checks THEN [kind |-> "panic", value |-> U32Max] ELSE wrapped

\* The loop of find_free_value.  The steps through a run of values in use are
\* taken at once: they end at the value after the run.  After u32::MAX the
\* addition overflows: a build with overflow checks panics; one without wraps
\* to 0, and the loop, which has found every value from 0 on in use, never ends.
RECURSIVE ProbeU32(_, _, _)
ProbeU32(set, free_value, checks) ==
    IF ~Contains(set, free_value) THEN Free(free_value)
    ELSE LET p == CHOOSE q \in set : ~Less(free_value, q.lo) /\ ~Less(q.hi, free_value)
         IN  IF p.hi = U32Max
             THEN Overflow(checks, [kind |-> "hang", value |-> U32Max])
             ELSE ProbeU32(set, Succ(p.hi), checks)

\* find_free_value that starts its search at 1.
find_free_value_from_one(set, checks) == ProbeU32(set, U32(1), checks)

\* find_free_value (find_lowest_free_value of utils) on any HashSet<u32>.
find_free_value(set, checks) == ProbeU32(set, U32(0), checks)

\* set.iter().fold(0, |x, &y| x.max(y))
FoldMax(set) ==
    IF set = {} THEN U32(0)
    ELSE (CHOOSE p \in set : \A q \in set : ~Less(p.hi, q.hi)).hi

\* find_highest_free_value on any HashSet<u32>: free_value + 1 overflows at
\* u32::MAX, a panic with overflow checks and 0 without.
find_highest_free_value_u32(set, checks) ==
    LET free_value == FoldMax(set)
    IN  IF Contains(set, free_value)
        THEN IF free_value = U32Max THEN Overflow(checks, Free(U32(0)))
             ELSE Free(Succ(free_value))
        ELSE Free(free_value)

\* The sets the allocator is called with: the unions of these runs, which
\* together hold every u32.
AllocPieces ==
    {Piece(U32(0), U32(0)), Piece(U32(1), U32(1)), Piece(U32(2), U32(2)),
     Piece(U32(3), Pred(Pred(U32Max))),
     Piece(Pred(U32Max), Pred(U32Max)), Piece(U32Max, U32Max)}

AllocInputs == [set : SUBSET AllocPieces, checks : {TRUE, FALSE}]

NoAlloc == [kind |-> "none", value |-> U32(0)]

----------------------------------------------------------------------------
(* Report *)

Shallow == "Shallow"
Brief == "Brief"
Tree == "Tree"
ReportDepth == {Shallow, Brief, Tree}

\* ReportInfo::filter: None, or a predicate, given by the internal ids of the
\* items it accepts.
NoFilter == [some |-> FALSE, pass |-> {}]
Filter(pass) == [some |-> TRUE, pass |-> pass]

\* The lines written: the header, an item, and "n more...".
HeaderLine(message, count) ==
    [kind |-> "header", spaces |-> 0, text |-> message, count |-> count,
     id |-> <<"none", 0>>]
\* ReportConfig::get_indent_spaces, the state mark, the name and id_repr.
ItemLine(item, info) ==
    [kind |-> "item", spaces |-> info.spaces_per_indent * info.indent,
     text |-> <<CASE item.state = Todo -> "o" [] item.state = Done -> "x"
                  [] item.state = Note -> "-">> \o item.name,
     count |-> 0,
     id |-> IF item.ref_id # None THEN <<"#", item.ref_id>>
            ELSE <<"i", item.internal_id>>]
MoreLine(info, count) ==
    [kind |-> "more", spaces |-> info.spaces_per_indent * info.indent + 2,
     text |-> <<"more...">>, count |-> count, id |-> <<"none", 0>>]

RECURSIVE display(_, _)
RECURSIVE display_all(_, _)

\* The closure proceed of BasicReport::display.
proceed(item, info) ==
    <<ItemLine(item, info)>>
    \o CASE info.depth = Shallow -> <<>>
         [] info.depth = Brief ->
                LET inner == [info EXCEPT !.indent = @ + 1, !.depth = Shallow]
                IN  IF Len(item.children) > 0
                    THEN display(item.children[1], inner)
                         \o IF Len(item.children) > 1
                            THEN <<MoreLine(inner, Len(item.children) - 1)>>
                            ELSE <<>>
                    ELSE <<>>
         [] info.depth = Tree ->
                display_all(item.children, [info EXCEPT !.indent = @ + 1])

\* BasicReport::display that goes on to the children of an item the filter
\* rejects.
display_descend(item, info) ==
    IF info.filter.some /\ item.internal_id \notin info.filter.pass
    THEN IF info.depth = Tree
         THEN display_all(item.children, [info EXCEPT !.indent = @ + 1])
         ELSE <<>>
    ELSE proceed(item, info)

\* BasicReport::display
display(item, info) ==
    IF info.filter.some
    THEN IF item.internal_id \in info.filter.pass THEN proceed(item, info) ELSE <<>>
    ELSE proceed(item, info)

\* BasicReport::display_all
display_all(items, info) ==
    IF items = <<>> THEN <<>>
    ELSE display(Head(items), info) \o display_all(Tail(items), info)

\* The header of Report::report, from items.size_hint().0.
length_message(lower) ==
    IF lower \in {0, 1} THEN HeaderLine("No items to be displayed", 0)
    ELSE IF lower = 2 THEN HeaderLine("1 item to be displayed", 1)
    ELSE HeaderLine("items to be displayed", lower - 1)

\* Report::report; lower is the lower bound the iterator gives as its size
\* hint.
report(items, lower, info) == <<length_message(lower)>> \o display_all(items, info)

\* Items in a reported forest.
MaxReport == 4

ReportLeaves ==
    {NewItem(r, i, <<"a">>, Todo, <<>>) : r \in {None, 7}, i \in 0..(MaxReport - 1)}

GrowReport(forests) ==
    {Append(f, l) : f \in forests, l \in ReportLeaves}
    \cup UNION {{ReplaceAt(f, p, [ItemAt(f, p) EXCEPT !.children = Append(@, l)]) :
                    p \in Paths(f), l \in ReportLeaves} : f \in forests}

\* Forests of n items with internal ids in pre-order; the first item may hold
\* a ref-id.
RECURSIVE ReportForestsOfSize(_)
ReportForestsOfSize(n) ==
    IF n = 0 THEN {<<>>}
    ELSE {f \in GrowReport(ReportForestsOfSize(n - 1)) :
            \A k \in 1..n : /\ Flatten(f)[k].internal_id = k - 1
                            /\ k > 1 => Flatten(f)[k].ref_id = None}

ReportForests == UNION {ReportForestsOfSize(n) : n \in 0..MaxReport}

\* What report is called with: the items, the size hint of their iterator
\* (every caller passes a Vec::into_iter, whose lower bound is the length),
\* the filter and the depth.
ReportInputs ==
    UNION {[items : {f}, lower : {Len(f)},
            filter : {NoFilter} \cup {Filter(pass) :
                        pass \in SUBSET (0..(Len(Flatten(f)) - 1))},
            depth : ReportDepth, indent : {0}, spaces_per_indent : {2, 3}] :
                f \in ReportForests}

----------------------------------------------------------------------------
(* Folder lock *)

\* itmn processes started side by side.
MaxProcs == 3
Procs == 1..MaxProcs

\* A process that has not called FolderLock::lock yet.
Started == [pc |-> "start", code |-> None, lock |-> "none", read |-> FALSE, wrote |-> FALSE]

\* No process is followed.
NoProcs == <<>>

\* create_dir_all, which succeeds on a directory that exists.
create_dir_all(exists, io_ok) == IF ~io_ok THEN "IoError" ELSE "Ok"

\* std::fs::create_dir, as FolderLock::lock reads its result: the directory is
\* made, or it exists (ErrorKind::AlreadyExists), or another error.
create_dir(exists, io_ok) ==
    IF ~io_ok THEN "IoError" ELSE IF exists THEN "AlreadyLocked" ELSE "Ok"

\* main: make_folder_lock(LOCK_NAME); on Err main returns ExitCode::new(1)
\* with no FolderLock to drop.
Lock(p) ==
    /\ procs[p].pc = "start"
    /\ \E io_ok \in {TRUE, FALSE} :
        LET made == create_dir(lock_dir, io_ok)
        IN  /\ lock_dir' = (lock_dir \/ made = "Ok")
            /\ procs' = [procs EXCEPT ![p] =
                            IF made = "Ok" THEN [@ EXCEPT !.pc = "locked", !.lock = "Ok"]
                            ELSE [@ EXCEPT !.pc = "exited", !.lock = made, !.code = 1]]
    /\ UNCHANGED <<pc, data, ref_ids, internal_ids, cmd, result, prev, file, exit, arg, parsed>>

\* main: touch_read, import and ItemManager::new; each failure returns
\* ExitCode::new(1).
Load(p) ==
    /\ procs[p].pc = "locked"
    /\ \E loaded \in {TRUE, FALSE} :
        procs' = [procs EXCEPT ![p] =
                    IF loaded THEN [@ EXCEPT !.pc = "loaded", !.read = TRUE]
                    ELSE [@ EXCEPT !.pc = "dropping", !.read = TRUE, !.code = 1]]
    /\ UNCHANGED <<pc, data, ref_ids, internal_ids, cmd, result, prev, file, exit, arg, parsed,
                   lock_dir>>

\* main: start_program_with_file and ExitCode::new(code); the locals of main
\* are dropped next.
Program(p) ==
    /\ procs[p].pc = "loaded"
    /\ \E should_save \in {TRUE, FALSE}, write_ok \in {TRUE, FALSE}, exit_status \in {0, 1} :
        procs' = [procs EXCEPT ![p] =
                    [@ EXCEPT !.pc = "dropping",
                              !.wrote = should_save /\ write_ok,
                              !.code = IF should_save /\ ~write_ok THEN 1 ELSE exit_status]]
    /\ UNCHANGED <<pc, data, ref_ids, internal_ids, cmd, result, prev, file, exit, arg, parsed,
                   lock_dir>>

\* A command panics: a build that unwinds drops the locals of main, one that
\* aborts ends the process where it is.
ProgramPanic(p) ==
    /\ procs[p].pc = "loaded"
    /\ \E unwind \in {TRUE, FALSE} :
        procs' = [procs EXCEPT ![p] =
                    [@ EXCEPT !.pc = IF unwind THEN "dropping" ELSE "killed", !.code = 101]]
    /\ UNCHANGED <<pc, data, ref_ids, internal_ids, cmd, result, prev, file, exit, arg, parsed,
                   lock_dir>>

\* Drop for FolderLock: release() removes the directory; NotFound is
\* AlreadyReleased, which drop ignores.
DropLock(p) ==
    /\ procs[p].pc = "dropping"
    /\ lock_dir' = FALSE
    /\ procs' = [procs EXCEPT ![p] =
                    [@ EXCEPT !.pc = "exited",
                              !.lock = IF lock_dir THEN "released" ELSE "AlreadyReleased"]]
    /\ UNCHANGED <<pc, data, ref_ids, internal_ids, cmd, result, prev, file, exit, arg, parsed>>

\* itmn is started again.
Invoke(p) ==
    /\ procs[p].pc = "exited"
    /\ procs' = [procs EXCEPT ![p] = Started]
    /\ UNCHANGED <<pc, data, ref_ids, internal_ids, cmd, result, prev, file, exit, arg, parsed,
                   lock_dir>>

----------------------------------------------------------------------------
(* Commands *)

NoCmd == [op |-> "none", range |-> <<>>, confirm |-> "none", force |-> "none",
          note |-> "none", name |-> <<"None">>, owner |-> <<"none">>,
          editor |-> "none"]

\* The command and its selection; the fields of what the handler read after
\* the selection was accepted are filled in by the handler.
Cmd(op, range) == [NoCmd EXCEPT !.op = op, !.range = range]

\* The answer confirm_with_default returned, the value of --force.
Answer(b) == IF b THEN "yes" ELSE "no"
Asked(c, confirm) == [c EXCEPT !.confirm = Answer(confirm)]

\* ProgramResult, Err(String) and a panic.
NoResult == [kind |-> "none", should_save |-> FALSE, exit_status |-> 0, err |-> NoError]
Ok(should_save, exit_status) ==
    [kind |-> "ok", should_save |-> should_save, exit_status |-> exit_status,
     err |-> NoError]
\* main turns an Err into ProgramResult {should_save: false, exit_status: 1}.
Err(e) == [kind |-> "err", should_save |-> FALSE, exit_status |-> 1, err |-> e]
Panic(e) == [kind |-> "panic", should_save |-> FALSE, exit_status |-> 101, err |-> e]

Manager == [data |-> data, ref_ids |-> ref_ids, internal_ids |-> internal_ids]

\* No process has exited.
NoExit == [code |-> None, write |-> "none", file |-> <<>>]

\* start_program_with_file after program(self) gave result r with the forest
\* as items: save_to_file is called when r.should_save, and its failure turns
\* the exit status into 1.  A write that fails leaves the file as it was.
Exit(r, items, write_ok) ==
    IF r.should_save
    THEN [code |-> IF write_ok THEN r.exit_status ELSE 1,
          write |-> IF write_ok THEN "ok" ELSE "failed",
          file |-> file]
    ELSE [code |-> r.exit_status, write |-> "none", file |-> file]

\* The data file after start_program_with_file.
Saved(r, items, write_ok) == IF r.should_save /\ write_ok THEN items ELSE file

\* No range string has been read.
NoInput == [tokens |-> <<>>, spaced |-> FALSE, checks |-> FALSE]
NoParse == ParseAbort("none", <<>>)

\* main up to data_serialize::import: the forest is what the file holds.
Init ==
    /\ pc = "load"
    /\ data \in InputForests
    /\ file = data
    /\ exit = NoExit
    /\ arg = NoInput
    /\ parsed = NoParse
    /\ lock_dir = FALSE
    /\ procs = NoProcs
    /\ ref_ids = {}
    /\ internal_ids = {}
    /\ cmd = NoCmd
    /\ result = NoResult
    /\ prev = [data |-> <<>>, ref_ids |-> {}, internal_ids |-> {}]

\* main: ItemManager::new(data)
New ==
    /\ pc = "load"
    /\ LET m == ManagerNew(data) IN
        /\ pc' = IF m.ok THEN "returned" ELSE "failed"
        /\ data' = m.data
        /\ ref_ids' = m.ref_ids
        /\ internal_ids' = m.internal_ids
        /\ cmd' = Cmd("new", <<>>)
        /\ result' = IF m.ok THEN Ok(FALSE, 0) ELSE Err(m.err)
        /\ prev' = Manager
        /\ file' = file
        /\ exit' = IF m.ok THEN NoExit ELSE [code |-> 1, write |-> "none", file |-> file]
        /\ UNCHANGED <<arg, parsed, lock_dir, procs>>

NoPrev == [data |-> <<>>, ref_ids |-> {}, internal_ids |-> {}]

\* The caller has the result; the manager is ready for the next command.
Return ==
    /\ pc = "returned"
    /\ pc' = "ready"
    /\ cmd' = NoCmd
    /\ result' = NoResult
    /\ prev' = NoPrev
    /\ exit' = NoExit
    /\ UNCHANGED <<data, ref_ids, internal_ids, file, arg, parsed, lock_dir, procs>>

\* start_program_with_file: the command c run on the manager leaves it as m
\* and returns r; the file is then written if r says so.  A panic unwinds
\* through start_program_with_file and main: nothing is written.
Run(c, m, r) ==
    \E write_ok \in {TRUE, FALSE} :
        /\ r.should_save \/ write_ok
        /\ pc' = IF r.kind = "panic" THEN "aborted"
                 ELSE IF r.should_save /\ ~write_ok THEN "unsaved"
                 ELSE "returned"
        /\ data' = m.data
        /\ ref_ids' = m.ref_ids
        /\ internal_ids' = m.internal_ids
        /\ cmd' = c
        /\ result' = r
        /\ prev' = Manager
        /\ file' = Saved(r, m.data, write_ok)
        /\ exit' = Exit(r, m.data, write_ok)
        /\ UNCHANGED <<arg, parsed, lock_dir, procs>>

\* What an item created by add or add-child starts as.
AddState(note) == IF note = "true" THEN Note ELSE Todo

\* subcmd_add
SubcmdAdd(name, note) ==
    /\ pc = "ready"
    /\ Cardinality(internal_ids) < MaxItems
    /\ Run([Cmd("add", <<>>) EXCEPT !.note = note, !.name = <<"Some", name>>],
           add_item_on_root(Manager, name, AddState(note), <<>>),
           Ok(TRUE, 0))

\* subcmd_list, subcmd_next, subcmd_flatlist: reports over a &ItemManager.
SubcmdList(op) ==
    /\ pc = "ready"
    /\ Run(Cmd(op, <<>>), Manager, Ok(FALSE, 0))

\* The ids a selection or a new owner can name.
RefIds == 0..MaxRefId

RECURSIVE SeqsUpTo(_, _)
SeqsUpTo(S, n) ==
    IF n = 0 THEN {<<>>}
    ELSE SeqsUpTo(S, n - 1)
         \cup {Append(q, x) : q \in {r \in SeqsUpTo(S, n - 1) : Len(r) = n - 1}, x \in S}

\* The range strings typed: every list of up to MaxRangeLen ids, the empty
\* string, and strings that are not ranges.
RangeStrings ==
    {Join([k \in 1..Len(ids) |-> Num(U32(ids[k]), 0)], 1, FALSE) :
        ids \in SeqsUpTo(RefIds, MaxRangeLen) \ {<<>>}}
    \cup {<<>>, <<" ">>, <<"x">>, <<"1", ".", ".", "0">>, TooBig}

\* What parse_range_str returns for them.
Selections == {parse_range_str(string, TRUE) : string \in RangeStrings}

\* What parse_range_str can hand to subcmd_selection.
Ranges ==
    {[k \in 1..Len(p.value) |-> p.value[k][1] * Half + p.value[k][2]] :
        p \in {q \in Selections : q.kind = "ok"}}

\* subcmd_selection when parse_range_str does not return Ok: the error is
\* passed on before the action is looked at; a panic ends the process.
SelUnparsed(p) ==
    /\ pc = "ready"
    /\ p.kind # "ok"
    /\ Run(Cmd("sel-ref-id", <<>>), Manager,
           IF p.kind = "err"
           THEN Err(<<"failed to parse range", p.err.tag, p.err.token>>)
           ELSE Panic(<<"unwrap">>))

\* subcmd_selection, before the match on the action: the reason the range is
\* rejected, NoError when it is accepted.
SelectionError(items, range) ==
    IF range = <<>> THEN <<"no selection was specified">>
    ELSE LET missing == first_invalid_ref_id(items, range)
         IN  IF missing # None THEN <<"invalid ID on the selection", missing>>
             ELSE NoError

\* ItemBatchMod::mod_item_by_ref
mod_item_by_ref(item, name, note) ==
    LET named == IF name[1] = "Some" THEN [item EXCEPT !.name = name[2]] ELSE item
    IN  IF note = "true" THEN [named EXCEPT !.state = Note]
        ELSE IF note = "false" /\ named.state = Note THEN [named EXCEPT !.state = Todo]
        ELSE named

\* The loop of proceed in SelAct::Modify; interact_mut on an id that is not
\* found does nothing.
RECURSIVE ModifyLoop(_, _, _, _, _)
ModifyLoop(items, range, i, name, note) ==
    IF i > Len(range) THEN items
    ELSE LET path == Find(items, RefId(range[i]))
         IN  ModifyLoop(IF path = <<>> THEN items
                        ELSE ReplaceAt(items, path,
                                 mod_item_by_ref(ItemAt(items, path), name, note)),
                        range, i + 1, name, note)

\* SelAct::Modify
SelModify(range, name, note, confirm) ==
    /\ pc = "ready"
    /\ LET c == [Cmd("modify", range) EXCEPT !.name = name, !.note = note]
           e == SelectionError(data, range)
       IN  IF e # NoError THEN Run(Cmd(c.op, range), Manager, Err(e))
           ELSE IF name[1] = "None" /\ note = "none" THEN Run(c, Manager, Ok(FALSE, 0))
           ELSE IF ~confirm THEN Run(Asked(c, confirm), Manager, Ok(FALSE, 1))
           ELSE Run(Asked(c, confirm),
                    [Manager EXCEPT !.data = ModifyLoop(data, range, 1, name, note)],
                    Ok(TRUE, 0))

\* The loop of proceed in SelAct::Add: add_child(..).unwrap() for every id.
RECURSIVE AddLoop(_, _, _, _, _)
AddLoop(m, range, i, name, state) ==
    IF i > Len(range) THEN [panic |-> FALSE, m |-> m]
    ELSE LET r == add_child(m, RefId(range[i]), name, state, <<>>)
         IN  IF r.ok THEN AddLoop(r.m, range, i + 1, name, state)
             ELSE [panic |-> TRUE, m |-> r.m]

\* SelAct::Add
SelAdd(range, name, note, confirm) ==
    /\ pc = "ready"
    /\ LET c == [Cmd("add-child", range) EXCEPT !.name = <<"Some", name>>, !.note = note]
           asked == IF Len(range) > 1 THEN Asked(c, confirm) ELSE c
           e == SelectionError(data, range)
       IN  IF e # NoError THEN Run(Cmd(c.op, range), Manager, Err(e))
           ELSE IF Len(range) > 1 /\ ~confirm THEN Run(asked, Manager, Ok(FALSE, 1))
           ELSE /\ Cardinality(internal_ids) + Len(range) <= MaxItems
                /\ LET r == AddLoop(Manager, range, 1, name, AddState(note))
                   IN  Run(asked, r.m, IF r.panic THEN Panic(<<"unwrap">>) ELSE Ok(TRUE, 0))

\* A closure that marks notes as done too.
DoneMapper_notes(previous) == IF previous \in {Todo, Note} THEN Done ELSE previous

\* The closure SelAct::Done passes to change_item_state.
DoneMapper(previous) == IF previous = Todo THEN Done ELSE previous

\* The loop of SelAct::Done: change_item_state(..).unwrap() for every id.
RECURSIVE DoneLoop(_, _, _)
DoneLoop(items, range, i) ==
    IF i > Len(range) THEN [panic |-> FALSE, data |-> items]
    ELSE LET r == change_item_state(items, RefId(range[i]),
                                       [previous \in ItemState |-> DoneMapper(previous)])
         IN  IF r.ok THEN DoneLoop(r.data, range, i + 1)
             ELSE [panic |-> TRUE, data |-> r.data]

\* SelAct::Done
SelDone(range, confirm) ==
    /\ pc = "ready"
    /\ LET c == Asked(Cmd("done", range), confirm)
           e == SelectionError(data, range)
       IN  IF e # NoError THEN Run(Cmd(c.op, range), Manager, Err(e))
           ELSE IF ~confirm THEN Run(c, Manager, Ok(FALSE, 1))
           ELSE LET r == DoneLoop(data, range, 1)
                IN  Run(c, [Manager EXCEPT !.data = r.data],
                        IF r.panic THEN Panic(<<"unwrap">>) ELSE Ok(TRUE, 0))

\* SelAct::ListTree, SelAct::ListBrief, SelAct::ListShallow
SelList(op, range) ==
    /\ pc = "ready"
    /\ LET e == SelectionError(data, range)
       IN  Run(Cmd(op, range), Manager, IF e # NoError THEN Err(e) ELSE Ok(FALSE, 0))

\* SelAct::PrintDescription
SelPrintDescription(range) ==
    /\ pc = "ready"
    /\ LET e == SelectionError(data, range)
       IN  Run(Cmd("print-description", range), Manager,
               IF e # NoError THEN Err(e)
               ELSE IF Len(range) # 1
               THEN Err(<<"The selection should have exactly one item.">>)
               ELSE Ok(FALSE, 0))

\* thing without the descent into the children.
thing_shallow(items, selection) ==
    LET Retained(item) == ~(item.ref_id # None /\ item.ref_id \in selection)
    IN  SelectSeq(items, Retained)

\* fn thing of SelAct::Delete: retain at this level, then the same in the
\* children of what was retained.
RECURSIVE thing(_, _)
thing(items, selection) ==
    LET Retained(item) == ~(item.ref_id # None /\ item.ref_id \in selection)
        kept == SelectSeq(items, Retained)
    IN  [i \in 1..Len(kept) |-> [kept[i] EXCEPT !.children = thing(@, selection)]]

\* SelAct::Delete that removes the selection before it looks at the answer.
SelDelete_unasked(range, force, confirm) ==
    /\ pc = "ready"
    /\ LET f == [Cmd("delete", range) EXCEPT !.force = Answer(force)]
           c == IF force THEN f ELSE Asked(f, confirm)
           e == SelectionError(data, range)
           m == [Manager EXCEPT !.data = thing(data, Range(range))]
       IN  IF e # NoError THEN Run(Cmd(c.op, range), Manager, Err(e))
           ELSE IF ~force /\ ~confirm THEN Run(c, m, Ok(FALSE, 1))
           ELSE Run(c, m, Ok(TRUE, 0))

\* SelAct::Delete
SelDelete(range, force, confirm) ==
    /\ pc = "ready"
    /\ LET f == [Cmd("delete", range) EXCEPT !.force = Answer(force)]
           c == IF force THEN f ELSE Asked(f, confirm)
           e == SelectionError(data, range)
       IN  IF e # NoError THEN Run(Cmd(c.op, range), Manager, Err(e))
           ELSE IF ~force /\ ~confirm THEN Run(c, Manager, Ok(FALSE, 1))
           ELSE Run(c, [Manager EXCEPT !.data = thing(data, Range(range))], Ok(TRUE, 0))

\* SelAct::Swap
SelSwap(range, force, confirm) ==
    /\ pc = "ready"
    /\ LET f == [Cmd("swap", range) EXCEPT !.force = Answer(force)]
           c == IF force THEN f ELSE Asked(f, confirm)
           e == SelectionError(data, range)
       IN  IF e # NoError THEN Run(Cmd(c.op, range), Manager, Err(e))
           ELSE IF Len(range) # 2
           THEN Run(Cmd("swap", range), Manager,
                    Err(<<"the amount of arguments should be exactly two">>))
           ELSE IF ~force /\ ~confirm THEN Run(c, Manager, Ok(FALSE, 1))
           ELSE LET r == swap(data, RefId(range[1]), RefId(range[2]))
                IN  IF r.ok THEN Run(c, [Manager EXCEPT !.data = r.data], Ok(TRUE, 0))
                    ELSE Run(c, Manager, Err(<<"item swap failed">> \o r.err))

\* The loop that reads the names in SelAct::EditName is read-only; after the
\* editor returned as many lines as there are ids, set_name runs for each id.
RECURSIVE EditNameLoop(_, _, _, _)
EditNameLoop(items, range, i, lines) ==
    IF i > Len(range) THEN [panic |-> FALSE, data |-> items]
    ELSE LET path == Find(items, RefId(range[i]))
         IN  IF path = <<>> THEN [panic |-> TRUE, data |-> items]
             ELSE EditNameLoop(ReplaceAt(items, path, set_name(ItemAt(items, path), lines[i])),
                               range, i + 1, lines)

\* SelAct::EditName.  editor is what tmp::edit_text gave back: "nonzero" for a
\* non-zero exit code, "mismatch" for a text with another number of lines,
\* "edited" for one line per selected id.
SelEditName(range, editor, lines) ==
    /\ pc = "ready"
    /\ LET c == [Cmd("edit-name", range) EXCEPT !.editor = editor]
           e == SelectionError(data, range)
       IN  IF e # NoError THEN Run(Cmd(c.op, range), Manager, Err(e))
           ELSE IF editor = "nonzero" THEN Run(c, Manager, Err(<<"non-zero exit code">>))
           ELSE IF editor = "mismatch"
           THEN Run(c, Manager, Err(<<"Incompatible amount of lines">>))
           ELSE LET r == EditNameLoop(data, range, 1, lines)
                IN  Run(c, [Manager EXCEPT !.data = r.data],
                        IF r.panic THEN Panic(<<"unwrap">>) ELSE Ok(TRUE, 0))

\* SelAct::EditDescription; the description is not part of the modelled item.
SelEditDescription(range, editor) ==
    /\ pc = "ready"
    /\ LET c == [Cmd("edit-description", range) EXCEPT !.editor = editor]
           e == SelectionError(data, range)
       IN  IF e # NoError THEN Run(Cmd(c.op, range), Manager, Err(e))
           ELSE IF Len(range) # 1
           THEN Run(Cmd(c.op, range), Manager,
                    Err(<<"The selection should have exactly one item.">>))
           ELSE IF editor = "nonzero" THEN Run(c, Manager, Err(<<"non-zero exit code">>))
           ELSE Run(c, Manager, Ok(TRUE, 0))

\* NewOwner::parse has given Root, ByRef(id) or ByInternal(id), or failed.
Owners ==
    {<<"Root">>, <<"Invalid">>}
    \cup {<<"ByRef", id>> : id \in RefIds} \cup {<<"ByInternal", id>> : id \in RefIds}

OwnerQuery(owner) == IF owner[1] = "ByRef" THEN RefId(owner[2]) ELSE InternalId(owner[2])

\* new_owner_internal_id: None for Root, the internal id of the owner found,
\* or the error of an owner that is not in the forest.
NewOwnerInternalId(items, owner) ==
    IF owner[1] = "Root" THEN [ok |-> TRUE, id |-> None]
    ELSE LET path == Find(items, OwnerQuery(owner))
         IN  IF path = <<>> THEN [ok |-> FALSE, id |-> None]
             ELSE [ok |-> TRUE, id |-> ItemAt(items, path).internal_id]

\* The items of the selection, as range.iter().map(find(..).unwrap()) collects them.
Selected(items, range) ==
    [i \in 1..Len(range) |-> ItemAt(items, Find(items, RefId(range[i])))]

\* The new-owner check that looks at the first selected item only.
OwnerInSelection_first(items, range, owner_id) ==
    owner_id # None /\ Selected(items, range)[1].internal_id = owner_id

\* "Prevent the new owner from being in the selection"
OwnerInSelection(items, range, owner_id) ==
    \E i \in 1..Len(range) :
        owner_id # None /\ Selected(items, range)[i].internal_id = owner_id

\* "Prevent a selected item from being a child of another selected item"
ParentChildConflict(items, range) ==
    \E i, i2 \in 1..Len(range) :
        i # i2 /\ has_child(Selected(items, range)[i], Selected(items, range)[i2])

\* range.iter().map(|id| try_remove(id).unwrap()).collect()
RECURSIVE DetachLoop(_, _, _, _)
DetachLoop(items, range, i, detached) ==
    IF i > Len(range) THEN [panic |-> FALSE, data |-> items, detached |-> detached]
    ELSE LET r == try_remove(items, range[i])
         IN  IF r.found THEN DetachLoop(r.data, range, i + 1, Append(detached, r.item))
             ELSE [panic |-> TRUE, data |-> r.data, detached |-> detached]

\* The detach and reinsert of SelAct::ChangeOwnership, after the confirmation.
Reparent(items, range, owner) ==
    LET d == DetachLoop(items, range, 1, <<>>)
    IN  IF d.panic THEN [panic |-> TRUE, data |-> d.data]
        ELSE IF owner[1] = "Root" THEN [panic |-> FALSE, data |-> d.data \o d.detached]
        ELSE LET path == Find(d.data, OwnerQuery(owner))
             IN  IF path = <<>> THEN [panic |-> TRUE, data |-> d.data]
                 ELSE [panic |-> FALSE,
                       data |-> ReplaceAt(d.data, path,
                                   [ItemAt(d.data, path) EXCEPT !.children = @ \o d.detached])]

\* SelAct::ChangeOwnership of src/itmn/src/main.rs
SelChangeOwnership(range, owner, confirm) ==
    /\ pc = "ready"
    /\ LET c == [Cmd("change-ownership", range) EXCEPT !.owner = owner]
           e == SelectionError(data, range)
           o == NewOwnerInternalId(data, owner)
       IN  IF e # NoError THEN Run(Cmd(c.op, range), Manager, Err(e))
           ELSE IF owner[1] = "Invalid"
           THEN Run(c, Manager, Err(<<"failed to parse new-owner argument">>))
           ELSE IF ~o.ok THEN Run(c, Manager, Err(<<"could not find item">>))
           ELSE IF OwnerInSelection(data, range, o.id)
           THEN Run(c, Manager, Err(<<"is on selection and is the new owner">>))
           ELSE IF ParentChildConflict(data, range)
           THEN Run(c, Manager, Err(<<"parent-child conflict">>))
           ELSE IF ~confirm THEN Run(Asked(c, confirm), Manager, Ok(FALSE, 1))
           ELSE LET r == Reparent(data, range, owner)
                IN  Run(Asked(c, confirm), [Manager EXCEPT !.data = r.data],
                        IF r.panic THEN Panic(<<"unwrap">>) ELSE Ok(TRUE, 0))

\* SelAct::ChangeOwnership of src/src/itmn/main.rs: the same without the
\* parent-child check, which is a TODO there.
SelChangeOwnershipOld(range, owner, confirm) ==
    /\ pc = "ready"
    /\ LET c == [Cmd("change-ownership-old", range) EXCEPT !.owner = owner]
           e == SelectionError(data, range)
           o == NewOwnerInternalId(data, owner)
       IN  IF e # NoError THEN Run(Cmd(c.op, range), Manager, Err(e))
           ELSE IF owner[1] = "Invalid"
           THEN Run(c, Manager, Err(<<"failed to parse new-owner argument">>))
           ELSE IF ~o.ok THEN Run(c, Manager, Err(<<"could not find item">>))
           ELSE IF OwnerInSelection(data, range, o.id)
           THEN Run(c, Manager, Err(<<"is on selection and is the new owner">>))
           ELSE IF ~confirm THEN Run(Asked(c, confirm), Manager, Ok(FALSE, 1))
           ELSE LET r == Reparent(data, range, owner)
                IN  Run(Asked(c, confirm), [Manager EXCEPT !.data = r.data],
                        IF r.panic THEN Panic(<<"unwrap">>) ELSE Ok(TRUE, 0))

Bools == {TRUE, FALSE}
NoteArgs == {"none", "true", "false"}
NameArgs == {<<"None">>} \cup {<<"Some", n>> : n \in Names}

Next ==
    \/ New
    \/ Return
    \/ \E name \in Names, note \in NoteArgs : SubcmdAdd(name, note)
    \/ \E op \in {"list", "next", "flat-list"} : SubcmdList(op)
    \/ \E p \in Selections : SelUnparsed(p)
    \/ \E range \in Ranges, name \in NameArgs, note \in NoteArgs, confirm \in Bools :
            SelModify(range, name, note, confirm)
    \/ \E range \in Ranges, name \in Names, note \in NoteArgs, confirm \in Bools :
            SelAdd(range, name, note, confirm)
    \/ \E range \in Ranges, confirm \in Bools : SelDone(range, confirm)
    \/ \E range \in Ranges, op \in {"list-tree", "list-brief", "list-shallow"} :
            SelList(op, range)
    \/ \E range \in Ranges : SelPrintDescription(range)
    \/ \E range \in Ranges, force \in Bools, confirm \in Bools :
            SelDelete(range, force, confirm)
    \/ \E range \in Ranges, force \in Bools, confirm \in Bools :
            SelSwap(range, force, confirm)
    \/ \E range \in Ranges, editor \in {"nonzero", "mismatch"} :
            SelEditName(range, editor, <<>>)
    \/ \E range \in Ranges : \E lines \in [1..Len(range) -> Names] :
            SelEditName(range, "edited", lines)
    \/ \E range \in Ranges, editor \in {"nonzero", "edited"} :
            SelEditDescription(range, editor)
    \/ \E range \in Ranges, owner \in Owners, confirm \in Bools :
            SelChangeOwnership(range, owner, confirm)
    \/ \E range \in Ranges, owner \in Owners, confirm \in Bools :
            SelChangeOwnershipOld(range, owner, confirm)

Spec == Init /\ [][Next]_vars

\* The load of a data file of any content: main up to ItemManager::new.
InitLoad ==
    /\ pc = "load"
    /\ data \in LoadForests
    /\ file = data
    /\ exit = NoExit
    /\ arg = NoInput
    /\ parsed = NoParse
    /\ lock_dir = FALSE
    /\ procs = NoProcs
    /\ ref_ids = {}
    /\ internal_ids = {}
    /\ cmd = NoCmd
    /\ result = NoResult
    /\ prev = NoPrev

NextLoad == New

SpecLoad == InitLoad /\ [][NextLoad]_vars

\* parse_range_str on its own: a range string is given, then parsed.
InitParse ==
    /\ pc = "parse"
    /\ arg \in RangeInputs
    /\ parsed = NoParse
    /\ lock_dir = FALSE
    /\ procs = NoProcs
    /\ data = <<>>
    /\ file = <<>>
    /\ exit = NoExit
    /\ ref_ids = {}
    /\ internal_ids = {}
    /\ cmd = NoCmd
    /\ result = NoResult
    /\ prev = NoPrev

Parse ==
    /\ pc = "parse"
    /\ pc' = "parsed"
    /\ parsed' = parse_range_str(RangeString(arg), arg.checks)
    /\ UNCHANGED <<data, ref_ids, internal_ids, cmd, result, prev, file, exit, arg, lock_dir, procs>>

NextParse == Parse

SpecParse == InitParse /\ [][NextParse]_vars

\* The allocator on its own: a set is given, then one of the two functions
\* is called on it.
InitAlloc ==
    /\ pc = "alloc"
    /\ arg \in AllocInputs
    /\ result = NoAlloc
    /\ parsed = NoParse
    /\ lock_dir = FALSE
    /\ procs = NoProcs
    /\ data = <<>>
    /\ file = <<>>
    /\ exit = NoExit
    /\ ref_ids = {}
    /\ internal_ids = {}
    /\ cmd = NoCmd
    /\ prev = NoPrev

Lowest ==
    /\ pc = "alloc"
    /\ pc' = "lowest"
    /\ result' = find_free_value(arg.set, arg.checks)
    /\ UNCHANGED <<data, ref_ids, internal_ids, cmd, prev, file, exit, arg, parsed, lock_dir, procs>>

Highest ==
    /\ pc = "alloc"
    /\ pc' = "highest"
    /\ result' = find_highest_free_value_u32(arg.set, arg.checks)
    /\ UNCHANGED <<data, ref_ids, internal_ids, cmd, prev, file, exit, arg, parsed, lock_dir, procs>>

NextAlloc == Lowest \/ Highest

SpecAlloc == InitAlloc /\ [][NextAlloc]_vars

\* The commands that create and rename items, on an empty data file, with
\* names as typed: any characters, newline, tab and carriage return too.
TypedNames == {<<"a">>, <<"\t", "a", "\r">>, <<"a", "\n">>}

\* A line of the text the editor gave back holds no newline.
EditedLines == {n \in TypedNames : "\n" \notin Range(n)}

InitName ==
    /\ pc = "load"
    /\ data = <<>>
    /\ file = data
    /\ exit = NoExit
    /\ arg = NoInput
    /\ parsed = NoParse
    /\ lock_dir = FALSE
    /\ procs = NoProcs
    /\ ref_ids = {}
    /\ internal_ids = {}
    /\ cmd = NoCmd
    /\ result = NoResult
    /\ prev = NoPrev

NextName ==
    \/ New
    \/ Return
    \/ \E name \in TypedNames, note \in NoteArgs : SubcmdAdd(name, note)
    \/ \E range \in Ranges, name \in TypedNames, note \in NoteArgs, confirm \in Bools :
            SelAdd(range, name, note, confirm)
    \/ \E range \in Ranges, name \in TypedNames, confirm \in Bools :
            SelModify(range, <<"Some", name>>, "none", confirm)
    \/ \E range \in Ranges : \E lines \in [1..Len(range) -> EditedLines] :
            SelEditName(range, "edited", lines)

SpecName == InitName /\ [][NextName]_vars

\* A report on its own: the items and the ReportInfo are given, then
\* Report::report writes its lines.
InitReport ==
    /\ pc = "report"
    /\ arg \in ReportInputs
    /\ result = <<>>
    /\ parsed = NoParse
    /\ lock_dir = FALSE
    /\ procs = NoProcs
    /\ data = <<>>
    /\ file = <<>>
    /\ exit = NoExit
    /\ ref_ids = {}
    /\ internal_ids = {}
    /\ cmd = NoCmd
    /\ prev = NoPrev

ReportAction ==
    /\ pc = "report"
    /\ pc' = "reported"
    /\ result' = report(arg.items, arg.lower,
                        [filter |-> arg.filter, depth |-> arg.depth,
                         indent |-> arg.indent,
                         spaces_per_indent |-> arg.spaces_per_indent])
    /\ UNCHANGED <<data, ref_ids, internal_ids, cmd, prev, file, exit, arg, parsed, lock_dir, procs>>

NextReport == ReportAction

SpecReport == InitReport /\ [][NextReport]_vars

\* Processes started side by side, the lock directory absent at first.
InitLock ==
    /\ pc = "procs"
    /\ lock_dir = FALSE
    /\ procs = [p \in Procs |-> Started]
    /\ arg = NoInput
    /\ parsed = NoParse
    /\ data = <<>>
    /\ file = <<>>
    /\ exit = NoExit
    /\ ref_ids = {}
    /\ internal_ids = {}
    /\ cmd = NoCmd
    /\ result = NoResult
    /\ prev = NoPrev

NextLock ==
    \E p \in Procs :
        \/ Lock(p)
        \/ Load(p)
        \/ Program(p)
        \/ ProgramPanic(p)
        \/ DropLock(p)
        \/ Invoke(p)

SpecLock == InitLock /\ [][NextLock]_vars

----------------------------------------------------------------------------
(* Properties *)

\* A manager exists: new returned Ok and no command has panicked.
Live == pc \in {"ready", "returned"}

\* A command of subcmd_selection has returned or panicked.
SelOps == {"modify", "add-child", "done", "list-tree", "list-brief", "list-shallow",
           "print-description", "delete", "swap", "edit-name", "edit-description",
           "change-ownership", "change-ownership-old"}
AfterSelection == pc \in {"returned", "aborted"} /\ cmd.op \in SelOps

Unchanged == Manager = prev

\* The item of forest f that holds ref-id r exists.
HoldsRef(f, r) == \E k \in 1..Len(Flatten(f)) : Flatten(f)[k].ref_id = r

InternalIdsOf(f) == {Flatten(f)[k].internal_id : k \in 1..Len(Flatten(f))}

\* C1: no two items anywhere in the forest hold the same ref_id, in every state
\* reached by ItemManager::new on an input that passes the duplicate check and
\* any sequence of commands after it.
C1_UniqueRefIds ==
    Live => \A j, k \in 1..Len(Flatten(data)) :
                (j # k /\ Flatten(data)[j].ref_id # None)
                    => Flatten(data)[j].ref_id # Flatten(data)[k].ref_id

C3_RefIdIffNotDone ==
    Live => \A k \in 1..Len(Flatten(data)) :
                (Flatten(data)[k].state = Done) <=> (Flatten(data)[k].ref_id = None)

\* C4: a selection command whose selection names an id that no item holds
\* returns the error that names the first such id, changes nothing and does
\* not ask for a save.
C4_InvalidSelectionRejected ==
    AfterSelection =>
        LET missing == {i \in 1..Len(cmd.range) : ~HoldsRef(prev.data, cmd.range[i])}
        IN  missing # {} =>
                /\ result = Err(<<"invalid ID on the selection",
                                  cmd.range[CHOOSE i \in missing :
                                                \A j \in missing : i <= j]>>)
                /\ Unchanged
                /\ pc = "returned"

\* C4 witness: the first id of the selection is held by an item, the second by
\* none, and the command was a delete.
C4_Witness ==
    /\ AfterSelection
    /\ cmd.op = "delete"
    /\ Len(cmd.range) = 2
    /\ HoldsRef(prev.data, cmd.range[1])
    /\ ~HoldsRef(prev.data, cmd.range[2])
    /\ result.kind = "err"

\* The first item of forest f, in pre-order, that holds ref-id r.
FirstHolder(f, r) ==
    Flatten(f)[CHOOSE k \in 1..Len(Flatten(f)) :
                    /\ Flatten(f)[k].ref_id = r
                    /\ \A j \in 1..(k - 1) : Flatten(f)[j].ref_id # r]

AllHeld(f, range) == range # <<>> /\ \A i \in 1..Len(range) : HoldsRef(f, range[i])

\* The selection holds two items, one in the subtree of the other.
AncestorSelected(f, range) ==
    \E i, j \in 1..Len(range) :
        LET a == Find(f, RefId(range[i]))
            b == Find(f, RefId(range[j]))
        IN  Len(a) < Len(b) /\ IsPrefix(a, b)

ChownOps == {"change-ownership", "change-ownership-old"}
AfterChown == pc \in {"returned", "aborted"} /\ cmd.op \in ChownOps

\* C5: in both versions of change-ownership, a selection that holds an item and
\* one of its ancestors is answered with an error and the manager is unchanged:
\* nothing is detached and nothing is to be saved (the user answers yes to any
\* confirmation the command reaches).
C5_AncestorSelectionRejected ==
    (AfterChown /\ AllHeld(prev.data, cmd.range) /\ AncestorSelected(prev.data, cmd.range)
                /\ cmd.confirm # "no")
        => /\ pc = "returned"
           /\ result.kind = "err"
           /\ ~result.should_save
           /\ Unchanged

\* The internal id of the item a new-owner argument names, None if it names none.
OwnerInternalId(f, owner) ==
    IF owner[1] = "ByInternal"
    THEN IF owner[2] \in InternalIdsOf(f) THEN owner[2] ELSE None
    ELSE IF owner[1] = "ByRef" /\ HoldsRef(f, owner[2])
    THEN FirstHolder(f, owner[2]).internal_id
    ELSE None

OwnerSelected(f, range, owner) ==
    /\ OwnerInternalId(f, owner) # None
    /\ \E i \in 1..Len(range) :
            FirstHolder(f, range[i]).internal_id = OwnerInternalId(f, owner)

\* C6: change-ownership whose new owner, named by ref-id or by internal id, is
\* one of the selected items returns an error without having asked for
\* confirmation and without having detached anything; nothing is to be saved.
C6_OwnerInSelectionRejected ==
    (AfterChown /\ AllHeld(prev.data, cmd.range)
                /\ OwnerSelected(prev.data, cmd.range, cmd.owner))
        => /\ pc = "returned"
           /\ result.kind = "err"
           /\ ~result.should_save
           /\ cmd.confirm = "none"
           /\ Unchanged

\* C6 witness: two items selected, the second of them named as the new owner by
\* its internal id, and the command rejected for it.
C6_Witness ==
    /\ AfterChown
    /\ cmd.op = "change-ownership"
    /\ Len(cmd.range) = 2
    /\ cmd.range[1] # cmd.range[2]
    /\ cmd.owner[1] = "ByInternal"
    /\ AllHeld(prev.data, cmd.range)
    /\ FirstHolder(prev.data, cmd.range[2]).internal_id = cmd.owner[2]
    /\ result = Err(<<"is on selection and is the new owner">>)

\* The swap command got as far as calling ItemManager::swap.
SwapCalled ==
    /\ pc \in {"returned", "aborted"}
    /\ cmd.op = "swap"
    /\ Len(cmd.range) = 2
    /\ AllHeld(prev.data, cmd.range)
    /\ (cmd.force = "yes" \/ cmd.confirm = "yes")

\* C7: swap(a, b) of two distinct items, wherever they are in the forest,
\* succeeds, and a second swap(a, b) succeeds and gives back the forest the
\* first one started from.
C7_SwapTwiceRestores ==
    (SwapCalled /\ cmd.range[1] # cmd.range[2])
        => /\ result.kind = "ok"
           /\ LET again == swap(data, RefId(cmd.range[1]), RefId(cmd.range[2]))
              IN  again.ok /\ again.data = prev.data

\* Every query swap can be given.
Queries == {RefId(id) : id \in 0..MaxItems} \cup {InternalId(id) : id \in 0..MaxItems}

\* The position in pre-order of the item a query resolves to, 0 if there is none.
Resolve(f, query) ==
    IF \E k \in 1..Len(Flatten(f)) : Matches(Flatten(f)[k], query)
    THEN CHOOSE k \in 1..Len(Flatten(f)) :
            /\ Matches(Flatten(f)[k], query)
            /\ \A j \in 1..(k - 1) : ~Matches(Flatten(f)[j], query)
    ELSE 0

\* C8: swap refuses, and changes nothing, when its queries resolve to the same
\* item or one of them to no item; the swap command then returns an error, the
\* forest and both id sets are as before and nothing is to be saved.
C8_SwapRefusalChangesNothing ==
    /\ pc = "ready" =>
            \A q1, q2 \in Queries :
                (\/ Resolve(data, q1) = 0
                 \/ Resolve(data, q2) = 0
                 \/ Resolve(data, q1) = Resolve(data, q2))
                    => /\ ~swap(data, q1, q2).ok
                       /\ swap(data, q1, q2).data = data
    /\ (SwapCalled /\ cmd.range[1] = cmd.range[2])
            => /\ pc = "returned"
               /\ result.kind = "err"
               /\ ~result.should_save
               /\ Unchanged
    /\ (pc \in {"returned", "aborted"} /\ cmd.op = "swap" /\ cmd.range # <<>>
            /\ ~AllHeld(prev.data, cmd.range))
            => /\ pc = "returned"
               /\ result.kind = "err"
               /\ ~result.should_save
               /\ Unchanged

\* C8 witness: swap was called with the same id twice and the command failed.
C8_Witness ==
    /\ SwapCalled
    /\ cmd.range[1] = cmd.range[2]
    /\ result = Err(<<"item swap failed", "first and second queries are the same item">>)
    /\ Len(Flatten(data)) >= 2

\* The items of a forest in pre-order, each with the internal id of its parent
\* (None at the root) and the ref-ids held on the way from the root to it.
RECURSIVE Entries(_, _, _)
Entries(items, parent, held) ==
    IF items = <<>> THEN <<>>
    ELSE LET item == Head(items)
             here == held \cup {item.ref_id}
         IN  <<[internal_id |-> item.internal_id, ref_id |-> item.ref_id,
                state |-> item.state, name |-> item.name,
                parent |-> parent, held |-> here]>>
             \o Entries(item.children, item.internal_id, here)
             \o Entries(Tail(items), parent, held)

\* C9: after a delete the forest is the old forest without the subtrees whose
\* root holds a selected ref-id: the items that hold a selected id or lie below
\* one that does are gone, every other item is there with its content, its
\* parent and its place among the remaining items.
C9_DeleteRemovesSubtrees ==
    (pc = "returned" /\ cmd.op = "delete" /\ result.kind = "ok" /\ result.should_save)
        => LET Survives(e) == e.held \cap Range(cmd.range) = {}
           IN  Entries(data, None, {}) = SelectSeq(Entries(prev.data, None, {}), Survives)

\* C9 witness: a parent and its child were both selected, and the third item,
\* which is not below them, is what is left.
C9_Witness ==
    /\ pc = "returned"
    /\ cmd.op = "delete"
    /\ result.should_save
    /\ Len(cmd.range) = 2
    /\ AncestorSelected(prev.data, cmd.range)
    /\ Len(Flatten(prev.data)) = 3
    /\ Len(Flatten(data)) = 1

\* The Done action ran for every id of the selection.
DoneApplied ==
    /\ pc = "returned"
    /\ cmd.op = "done"
    /\ cmd.confirm = "yes"
    /\ result.kind = "ok"

StatesOf(f, id) ==
    {Flatten(f)[k].state : k \in {j \in 1..Len(Flatten(f)) : Flatten(f)[j].internal_id = id}}

\* C11: Done is terminal: an item that was Done when a command started is not
\* Todo and not Note when the command has returned, whatever the command.
C11_DoneIsTerminal ==
    pc \in {"returned", "aborted"} =>
        \A k \in 1..Len(Flatten(prev.data)) :
            Flatten(prev.data)[k].state = Done
                => StatesOf(data, Flatten(prev.data)[k].internal_id) \subseteq {Done}

\* The selection names some id more than once.
HasDuplicate(range) == \E i, j \in 1..Len(range) : i # j /\ range[i] = range[j]

\* C12: modify, add-child, done, delete and change-ownership, given a selection
\* of valid ids in which an id occurs twice, return a result or an error: the
\* process does not abort.
C12_DuplicatesTolerated ==
    (/\ cmd.op \in {"modify", "add-child", "done", "delete",
                    "change-ownership", "change-ownership-old"}
     /\ pc \in {"returned", "aborted"}
     /\ AllHeld(prev.data, cmd.range)
     /\ HasDuplicate(cmd.range))
        => pc = "returned" /\ result.kind \in {"ok", "err"}

\* The commands of src/itmn/src/main.rs that ask before they change the forest;
\* add-child asks when more than one item is selected.
AskingCommand ==
    /\ pc \in {"returned", "aborted"}
    /\ \/ cmd.op \in {"modify", "done", "delete", "swap", "change-ownership"}
       \/ cmd.op = "add-child" /\ Len(cmd.range) > 1

\* C13: a declined confirmation leaves the manager as it was, with should_save
\* false and exit status 1; and the forest differs from what it was only when
\* the confirmation was accepted or, for delete and swap, --force was given.
C13_ConfirmBeforeMutation ==
    AskingCommand =>
        /\ cmd.confirm = "no"
            => /\ pc = "returned"
               /\ Unchanged
               /\ result = Ok(FALSE, 1)
        /\ data # prev.data
            => \/ cmd.confirm = "yes"
               \/ cmd.op \in {"delete", "swap"} /\ cmd.force = "yes"

\* C13 witness: a delete without --force of an item that has a child, declined.
C13_Witness ==
    /\ AskingCommand
    /\ cmd.op = "delete"
    /\ cmd.force = "no"
    /\ cmd.confirm = "no"
    /\ AllHeld(prev.data, cmd.range)
    /\ Len(data) = 1 /\ Len(data[1].children) = 1

\* A command has run under start_program_with_file and the process has ended.
Exited == pc \in {"returned", "unsaved", "aborted"} /\ cmd.op # "new"

ReadOnlyOps == {"list", "next", "flat-list", "list-tree", "list-brief", "list-shallow",
                "print-description"}

\* C14: the file is written exactly when the command's result says should_save,
\* and then holds the forest; a command that ends in an error, in a declined
\* confirmation or that only reports has should_save false and the forest as it
\* was; a command that changed the forest has should_save true; the exit status
\* is 1 when the write failed and the exit_status of the result otherwise.
C14_SaveIfModified ==
    Exited =>
        /\ (exit.write # "none") <=> result.should_save
        /\ file = IF exit.write = "ok" THEN data ELSE exit.file
        /\ (result.kind = "err" \/ cmd.confirm = "no" \/ cmd.op \in ReadOnlyOps)
                => ~result.should_save /\ data = prev.data
        /\ data # prev.data => result.should_save
        /\ exit.code = IF exit.write = "failed" THEN 1 ELSE result.exit_status

\* The places, in pre-order, of the items of forest f that repeat the ref-id or
\* the internal id of an item before them.
RepeatsRef(f, k) ==
    /\ Flatten(f)[k].ref_id # None
    /\ \E j \in 1..(k - 1) : Flatten(f)[j].ref_id = Flatten(f)[k].ref_id
RepeatsInternal(f, k) ==
    \E j \in 1..(k - 1) : Flatten(f)[j].internal_id = Flatten(f)[k].internal_id
Repeats(f) == {k \in 1..Len(Flatten(f)) : RepeatsRef(f, k) \/ RepeatsInternal(f, k)}

\* The error for the first repeated id of forest f.
FirstRepeat(f) ==
    LET k == CHOOSE k \in Repeats(f) : \A j \in Repeats(f) : k <= j
    IN  IF RepeatsRef(f, k) THEN <<"RepeatedRefID", Flatten(f)[k].ref_id>>
        ELSE <<"RepeatedInternalID", Flatten(f)[k].internal_id>>

Loaded == pc \in {"returned", "failed"} /\ cmd.op = "new"

\* C15: ItemManager::new fails exactly when the forest repeats an internal id
\* or a ref-id; the error names the first repeated id in pre-order, the ref-id
\* of an item before its internal id; no manager exists then, and main exits
\* with status 1 and the file as it was.
C15_NewRejectsDuplicates ==
    Loaded =>
        /\ (pc = "failed") <=> (Repeats(prev.data) # {})
        /\ pc = "failed"
            => /\ result = Err(FirstRepeat(prev.data))
               /\ ref_ids = {} /\ internal_ids = {}
               /\ exit.code = 1
               /\ exit.write = "none"
               /\ file = prev.data
        /\ pc = "returned" => exit = NoExit /\ result.kind = "ok"

\* C15 witness: the third item in pre-order, a child, repeats the ref-id and the
\* internal id of the first, and the error is the one for the ref-id.
C15_Witness ==
    /\ Loaded
    /\ pc = "failed"
    /\ Len(Flatten(prev.data)) = 3
    /\ Repeats(prev.data) = {3}
    /\ RepeatsRef(prev.data, 3) /\ RepeatsInternal(prev.data, 3)
    /\ Len(prev.data) < 3
    /\ result.err[1] = "RepeatedRefID"

\* A command ran to its end and gave a ProgramResult.
Completed == pc \in {"returned", "unsaved"}

Taken(before, after) ==
    IF before \subseteq after /\ Cardinality(after \ before) = 1
    THEN CHOOSE x \in after \ before : TRUE
    ELSE None

\* Manager after is manager before with one new childless item as the last
\* child of the item at place k in pre-order, and nothing else changed.
ChildAdded(before, after, k) ==
    LET rid == Taken(before.ref_ids, after.ref_ids)
        iid == Taken(before.internal_ids, after.internal_ids)
        old == Entries(before.data, None, {})
        new == Entries(after.data, None, {})
        Old(e) == e.internal_id # iid
        at == {n \in 1..Len(new) : new[n].internal_id = iid}
    IN  /\ rid # None /\ iid # None
        /\ [n \in 1..Len(SelectSeq(new, Old)) |->
                [SelectSeq(new, Old)[n] EXCEPT !.held = {}]]
            = [n \in 1..Len(old) |-> [old[n] EXCEPT !.held = {}]]
        /\ Cardinality(at) = 1
        /\ \A n \in at :
            /\ new[n].ref_id = rid
            /\ new[n].parent = Flatten(before.data)[k].internal_id
            /\ \A later \in (n + 1)..Len(new) : new[later].parent # new[n].parent
            /\ n = Len(new) \/ new[n + 1].parent # iid

Parsed == pc = "parsed"

\* The u32 that is k above a.
Plus(a, k) == <<a[1] + (a[2] + k) \div Half, (a[2] + k) % Half>>

\* What a token stands for: the number, or first, first + 1, ..., second.
Expansion(token) ==
    IF token.kind = "num" THEN <<token.first>>
    ELSE [k \in 1..((token.second[1] - token.first[1]) * Half
                        + token.second[2] - token.first[2] + 1)
            |-> Plus(token.first, k - 1)]

RECURSIVE Concatenation(_, _)
Concatenation(tokens, k) ==
    IF k > Len(tokens) THEN <<>>
    ELSE Expansion(tokens[k]) \o Concatenation(tokens, k + 1)

\* A number, or a range whose second number is not below the first.
WellFormedToken(token) ==
    \/ token.kind = "num"
    \/ token.kind = "range" /\ ~Less(token.second, token.first)

WellFormed(tokens) == \A k \in 1..Len(tokens) : WellFormedToken(tokens[k])

\* C18: for a range string whose tokens are all numbers and ranges N..M with
\* M >= N, parse_range_str returns Ok with the expansions of the tokens one
\* after the other, in the order written, repeated values kept.
C18_ParseConcatenates ==
    (Parsed /\ WellFormed(arg.tokens))
        => parsed = ParseOk(Concatenation(arg.tokens, 1))

\* The first token that is not well formed.
FirstBad(tokens) ==
    tokens[CHOOSE k \in 1..Len(tokens) :
                /\ ~WellFormedToken(tokens[k])
                /\ \A j \in 1..(k - 1) : WellFormedToken(tokens[j])]

\* C19: parse_range_str returns for every string, Ok or Err; it returns Err,
\* with no values, exactly when some token is not well formed; the error names
\* that token and, for a range whose second number is below the first, both
\* numbers.
C19_ParseAlwaysReturns ==
    Parsed =>
        /\ parsed.kind \in {"ok", "err"}
        /\ arg.tokens # <<Text(<<>>)>>
            => /\ (parsed.kind = "err") <=> ~WellFormed(arg.tokens)
               /\ parsed.kind = "err"
                    => LET bad == FirstBad(arg.tokens)
                       IN  /\ parsed.value = <<>>
                           /\ parsed.err.token = TokenText(bad)
                           /\ bad.kind = "range"
                                => /\ parsed.err.first = bad.first
                                   /\ parsed.err.second = bad.second

\* C20: for the empty string and for a string of spaces parse_range_str
\* returns Ok with no values.
C20_EmptyStringParses ==
    (Parsed /\ arg.tokens = <<Text(<<>>)>>) => parsed = ParseOk(<<>>)

\* The values not in a set of AllocInputs, as runs.
FreePieces(set) == AllocPieces \ set

\* The least value not in the set.
LeastFree(set) ==
    (CHOOSE p \in FreePieces(set) : \A q \in FreePieces(set) : ~Less(q.lo, p.lo)).lo

\* find_free_value returned the least value that is not in the set.
LowestIsLeastFree ==
    /\ result.kind = "ok"
    /\ ~Contains(arg.set, result.value)
    /\ result.value = LeastFree(arg.set)

\* C21: for every set of u32 values find_lowest_free_value returns, and the
\* value it returns is not in the set and is not above any other value that
\* is not in the set.
C21_LowestFree == pc = "lowest" => LowestIsLeastFree

\* C21 as it holds: the same for every set that does not hold all 2^32 values
\* of u32; on that one set no free value exists and the function does not
\* return.
C21_LowestFreeAmended ==
    /\ (pc = "lowest" /\ arg.set # AllocPieces) => LowestIsLeastFree
    /\ (pc = "lowest" /\ arg.set = AllocPieces) => result.kind \in {"panic", "hang"}

\* C21 witness: every value up to u32::MAX - 2 is in use and the one after
\* them is returned.
C21_Witness ==
    /\ pc = "lowest"
    /\ arg.set = {Piece(U32(0), U32(0)), Piece(U32(1), U32(1)), Piece(U32(2), U32(2)),
                  Piece(U32(3), Pred(Pred(U32Max))), Piece(U32Max, U32Max)}
    /\ result = Free(Pred(U32Max))

\* C22: for every set of u32 values find_highest_free_value returns a value
\* that is not in the set and is not below any value of the set, 0 for the
\* empty set.
C22_HighestFree ==
    pc = "highest" =>
        /\ result.kind = "ok"
        /\ ~Contains(arg.set, result.value)
        /\ \A p \in arg.set : ~Less(result.value, p.hi)
        /\ arg.set = {} => result.value = U32(0)

\* No newline, carriage return or tab in the name of any item of the forest.
CleanName(name) == \A k \in 1..Len(name) : name[k] \notin {"\n", "\r", "\t"}
NamesClean(items) ==
    \A k \in 1..Len(Flatten(items)) : CleanName(Flatten(items)[k].name)

\* C23: after any sequence of add, add-child, modify with a new name and
\* edit-name on an empty data file, no item's name holds a newline, a
\* carriage return or a tab.
C23_NamesClean == NamesClean(data)

\* The paths of a forest in pre-order.
RECURSIVE PreOrder(_, _, _)
PreOrder(items, i, above) ==
    IF i > Len(items) THEN <<>>
    ELSE <<Append(above, i)>>
         \o PreOrder(items[i].children, 1, Append(above, i))
         \o PreOrder(items, i + 1, above)

\* The item at a path and each of its ancestors pass the filter.
PassesDown(items, filter, path) ==
    \A n \in 1..Len(path) :
        ~filter.some \/ ItemAt(items, SubSeq(path, 1, n)).internal_id \in filter.pass

\* The lines a pruning report writes for a forest: one for each path that
\* passes down, in pre-order, indented by its depth.
PrunedLines(items, filter, spaces_per_indent) ==
    LET paths == PreOrder(items, 1, <<>>)
        Shown(path) == PassesDown(items, filter, path)
        shown == SelectSeq(paths, Shown)
    IN  [k \in 1..Len(shown) |->
            ItemLine(ItemAt(items, shown[k]),
                     [spaces_per_indent |-> spaces_per_indent,
                      indent |-> Len(shown[k]) - 1])]

\* C24: with depth Tree, for every forest and every filter, the lines
\* BasicReport writes after the header are those of the items that pass the
\* filter together with all their ancestors, in pre-order, each indented by
\* spaces_per_indent times its depth; nothing below a rejected item is written.
C24_FilterPrunes ==
    (pc = "reported" /\ arg.depth = Tree)
        => Tail(result) = PrunedLines(arg.items, arg.filter, arg.spaces_per_indent)

\* C24 witness: a chain of three items whose middle one is rejected: only the
\* first is written, though the third passes.
C24_Witness ==
    /\ pc = "reported" /\ arg.depth = Tree
    /\ Len(arg.items) = 1 /\ Len(arg.items[1].children) = 1
    /\ Len(arg.items[1].children[1].children) = 1
    /\ arg.filter = Filter({0, 2})
    /\ Len(result) = 2

\* C30: the header says "No items" only when no item was passed to the
\* report, "1 item" when one was, and "n items" when n > 1 were.
C30_HeaderCount ==
    pc = "reported" =>
        LET n == Len(arg.items)
        IN  /\ result[1].kind = "header"
            /\ result[1].text = "No items to be displayed" => n = 0
            /\ n = 1 => result[1].text = "1 item to be displayed"
            /\ n > 1 => result[1].text = "items to be displayed" /\ result[1].count = n

\* A change-ownership of src/itmn/src/main.rs that passed its checks and was
\* confirmed has run.
ChownConfirmed ==
    /\ pc \in {"returned", "unsaved", "aborted"}
    /\ cmd.op = "change-ownership"
    /\ cmd.confirm = "yes"

\* The internal id, ref-id, state and name of every item of a forest.
Facts(f) ==
    {[internal_id |-> Flatten(f)[k].internal_id, ref_id |-> Flatten(f)[k].ref_id,
      state |-> Flatten(f)[k].state, name |-> Flatten(f)[k].name] :
        k \in 1..Len(Flatten(f))}

\* The children of the item with internal id parent, the root list for None.
ChildList(f, parent) ==
    IF parent = None THEN f ELSE ItemAt(f, Find(f, InternalId(parent))).children

\* The internal ids of a list of items, those in the set out left out.
RECURSIVE IdsWithout(_, _)
IdsWithout(items, out) ==
    IF items = <<>> THEN <<>>
    ELSE (IF Head(items).internal_id \in out THEN <<>> ELSE <<Head(items).internal_id>>)
         \o IdsWithout(Tail(items), out)

\* The forest after is the forest before with the items of the selection
\* moved, each with its subtree, to the end of the children of the new owner.
Reparented(before, after, range, owner) ==
    LET selected == Selected(before, range)
        moved == {selected[i].internal_id : i \in 1..Len(range)}
        inside == UNION {InternalIdsOf(selected[i].children) : i \in 1..Len(range)}
        to == OwnerInternalId(before, owner)
    IN  /\ Len(Flatten(after)) = Len(Flatten(before))
        /\ Facts(after) = Facts(before)
        /\ to # None => to \in InternalIdsOf(after)
        /\ (to = None \/ to \in InternalIdsOf(after)) =>
                LET list == ChildList(after, to)
                IN  /\ Len(list) >= Len(range)
                    /\ \A i \in 1..Len(range) :
                            list[Len(list) - Len(range) + i] = selected[i]
        /\ \A parent \in ({None} \cup InternalIdsOf(before)) \ (moved \cup inside) :
                /\ parent # None => parent \in InternalIdsOf(after)
                /\ (parent = None \/ parent \in InternalIdsOf(after)) =>
                        IdsWithout(ChildList(after, parent), moved)
                            = IdsWithout(ChildList(before, parent), moved)

\* C25: a change-ownership that passed its checks and was confirmed leaves the
\* same items with the same ids, states and subtrees; the selected items are,
\* in selection order, the last children of the new owner (the last items of
\* the root list for .ROOT); every other item keeps its parent and its order
\* among the siblings that stayed.
C25_ChownConserves ==
    ChownConfirmed => Reparented(prev.data, data, cmd.range, cmd.owner)

\* C27: in a confirmed change-ownership to an owner other than .ROOT, the owner
\* is still in the forest once the selected items are detached, the command
\* returns Ok and no item is lost.
C27_OwnerStillPresent ==
    (ChownConfirmed /\ cmd.owner[1] \in {"ByRef", "ByInternal"})
        => LET d == DetachLoop(prev.data, cmd.range, 1, <<>>)
           IN  ~d.panic =>
                    /\ Find(d.data, OwnerQuery(cmd.owner)) # <<>>
                    /\ result.kind = "ok"
                    /\ InternalIdsOf(data) = InternalIdsOf(prev.data)

\* The swap command called ItemManager::swap and it returned Ok.
Swapped ==
    /\ pc \in {"returned", "unsaved"}
    /\ cmd.op = "swap"
    /\ (cmd.force = "yes" \/ cmd.confirm = "yes")
    /\ result.kind = "ok"

\* No item of the forest is found again below itself.
NoCycle(f) ==
    \A k \in 1..Len(Flatten(f)) :
        Flatten(f)[k].internal_id \notin InternalIdsOf(Flatten(f)[k].children)

\* C26: after a swap of two distinct items that returned Ok, whether or not
\* one of them is below the other, the forest reachable from the root list
\* holds the same internal ids as before, each once, and no item is below
\* itself.
C26_SwapConserves ==
    Swapped =>
        /\ Len(Flatten(data)) = Len(Flatten(prev.data))
        /\ InternalIdsOf(data) = InternalIdsOf(prev.data)
        /\ NoCycle(data)

\* The ref-ids held by the items of a forest.
RefIdsOf(f) == {Flatten(f)[k].ref_id : k \in 1..Len(Flatten(f))} \ {None}

\* C28: from the return of ItemManager::new on, ref_ids holds every ref-id
\* that an item of the forest holds and internal_ids every internal id of the
\* forest, and the ids given to an item created by add or add-child were held
\* by no item before.
C28_IdsTracked ==
    Live =>
        /\ RefIdsOf(data) \subseteq ref_ids
        /\ InternalIdsOf(data) \subseteq internal_ids
        /\ (cmd.op \in {"add", "add-child"} /\ result.kind = "ok" /\ result.should_save)
                => /\ (ref_ids \ prev.ref_ids) \cap RefIdsOf(prev.data) = {}
                   /\ (internal_ids \ prev.internal_ids) \cap InternalIdsOf(prev.data) = {}

\* The processes between a successful FolderLock::lock and the release.
Holders == {p \in Procs : procs[p].pc \in {"locked", "loaded", "dropping", "killed"}}

=============================================================================
